---- MODULE Spec2Model ----
(***************************************************************************)
(* State-machine model of src/server.js: an express server that keeps      *)
(* users and tasks as two JSON files (users.json, tasks.json), hashes      *)
(* passwords with bcrypt and issues 12-hour JWT bearer tokens.             *)
(*                                                                         *)
(* JSON scalars are modelled as strings, task ids and timestamps as        *)
(* naturals.  A JS object is a TLA+ record whose DOMAIN is the set of keys *)
(* the object has; a key that is absent reads as Undefined.                *)
(***************************************************************************)
EXTENDS Naturals, Sequences, FiniteSets, Bags, TLC

VARIABLES
    users,      \* parsed content of users.json
    tasks,      \* parsed content of tasks.json
    clock,      \* the wall clock, Date.now()
    issued,     \* tokens handed out by /register and /login
    pending,    \* bag of async handlers suspended in an await
    resp,       \* the request answered at this instant and its response
    prev,       \* the two stores as they were just before that answer
    registered  \* the emails whose registration was answered 201 and whose
                \* account no DELETE /delete-account has removed since

vars == <<users, tasks, clock, issued, pending, resp, prev, registered>>

----------------------------------------------------------------------------
(* Bounds of the model *)

MaxTasks == 2       \* POST /tasks is not taken on a store this long
MaxPending == 2     \* handlers suspended in an await at the same time
ExpiresIn == 2      \* token lifetime in clock ticks ("12h" in the source)
MaxClock == ExpiresIn   \* the clock stops when the first tokens have expired

Emails == {"a@x.com", "b@x.com"}
Passwords == {"p1", "p2"}      \* the passwords clients register with

----------------------------------------------------------------------------
(* JS values *)

Undefined == "<undefined>"

\* !v for the string-valued fields of a request body
Falsy(v) == v \in {Undefined, ""}

\* obj.key (destructuring of req.body)
Field(obj, key) == IF key \in DOMAIN obj THEN obj[key] ELSE Undefined

\* the keys whose value is a number in every object of the program
NumericKeys == {"id", "iat", "exp"}

\* JSON.stringify drops the keys whose value is undefined
Stringify(obj) ==
    LET keep == {k \in DOMAIN obj : k \in NumericKeys \/ obj[k] # Undefined}
    IN  [k \in keep |-> obj[k]]

\* { ...a, ...b }
Spread(a, b) ==
    [k \in DOMAIN a \cup DOMAIN b |-> IF k \in DOMAIN b THEN b[k] ELSE a[k]]

Digits == <<"0", "1", "2", "3", "4", "5", "6", "7", "8", "9">>
NaN == Len(Digits)

\* the decimal text of a one-digit number, as a client writes it in a URL
DecStr(n) == Digits[n + 1]

\* Number(s) for a route parameter
ToNumber(s) ==
    IF \E n \in 0..9 : Digits[n + 1] = s
    THEN CHOOSE n \in 0..9 : Digits[n + 1] = s
    ELSE NaN

\* t.id == param, a number compared with a string
LooseEq(id, param) == ToNumber(param) # NaN /\ id = ToNumber(param)

SelectIndex(seq, Test(_)) ==
    IF \E i \in 1..Len(seq) : Test(seq[i])
    THEN CHOOSE i \in 1..Len(seq) :
            Test(seq[i]) /\ \A j \in 1..(i - 1) : ~Test(seq[j])
    ELSE 0

----------------------------------------------------------------------------
(* Record store *)

readData(file) == file

writeData(data) == [i \in 1..Len(data) |-> Stringify(data[i])]

----------------------------------------------------------------------------
(* Credentials *)

SECRET_KEY == "fallback_secret"

Sign(payload, key) == <<"HS256", key, payload.email, payload.iat, payload.exp>>

\* jwt.sign({ email }, SECRET_KEY, { expiresIn: "12h" })
jwtSign(email, now) ==
    LET payload == [email |-> email, iat |-> now, exp |-> now + ExpiresIn]
    IN  [email |-> email, iat |-> now, exp |-> now + ExpiresIn,
         sig |-> Sign(payload, SECRET_KEY)]

\* the verification with the expiry ignored
jwtVerifyIgnoreExpiration(token, now) == token.sig = Sign(token, SECRET_KEY)

\* jwt.verify(token, SECRET_KEY) does not throw
jwtVerify(token, now) ==
    /\ token.sig = Sign(token, SECRET_KEY)
    /\ now < token.exp

NonString == "<number>"

\* bcrypt.hash(password, 10) resolves
Hashable(password) == password # NonString

\* the digest of each password: "$2a$", the cost, the salt and the hash
Digest == [p1 |-> "$2a$10$saltp1", p2 |-> "$2a$10$saltp2"]

bcryptHash(password) == Digest[password]

bcryptCompare(password, hash) == password \in DOMAIN Digest /\ Digest[password] = hash

----------------------------------------------------------------------------
(* Responses *)

NoOut == [kind |-> "none"]
Message(m) == [kind |-> "message", message |-> m]
Errors(fields) == [kind |-> "errors", errors |-> fields]
TokenOut(t) == [kind |-> "token", token |-> t]
TaskOut(t) == [kind |-> "task", task |-> t]
TasksOut(ts) == [kind |-> "tasks", tasks |-> ts]

NoBody == [none |-> "none"]
NoId == "-"

Response(op, auth, id, body, status, out) ==
    [op |-> op, auth |-> auth, id |-> id, body |-> body,
     status |-> status, out |-> out]

Snapshot == [users |-> users, tasks |-> tasks]

\* no request has been answered at this instant
NoResponse == Response("none", [scheme |-> "none"], NoId, NoBody, 0, NoOut)
NoSnapshot == [users |-> <<>>, tasks |-> <<>>]

----------------------------------------------------------------------------
(* Requests a client can send *)

NoToken == [email |-> "", iat |-> 0, exp |-> 0, sig |-> <<>>]
NoAuth == [scheme |-> "none", token |-> NoToken]
BasicAuth == [scheme |-> "Basic", token |-> NoToken]
Bearer(t) == [scheme |-> "Bearer", token |-> t]

\* an issued token whose payload was edited, the signature kept
Tamper(t, email) == [t EXCEPT !.email = email]

\* a token signed with another key
Forged(email, now) ==
    LET payload == [email |-> email, iat |-> now, exp |-> now + ExpiresIn]
    IN  [email |-> email, iat |-> now, exp |-> now + ExpiresIn,
         sig |-> Sign(payload, "another_secret")]

\* one issued token edited to name each other user, and one forged token
BadTokens ==
    (IF issued = {} THEN {}
     ELSE LET t == CHOOSE x \in issued : TRUE
          IN  {Tamper(t, e) : e \in Emails \ {t.email}})
        \cup {Forged("a@x.com", 0)}

AuthHeaders == {NoAuth, BasicAuth} \cup {Bearer(t) : t \in issued \cup BadTokens}

\* the ids a task can get while a token of time 0 is live, and a word
IdParams == {DecStr(i) : i \in 0..(ExpiresIn - 1)} \cup {"abc"}

RegBody(email, password) ==
    [name |-> "A", email |-> email, password |-> password,
     phone |-> "1", age |-> "30", address |-> "addr"]

Without(obj, key) == [k \in DOMAIN obj \ {key} |-> obj[k]]

RegBodies ==
    {RegBody(e, p) : e \in Emails, p \in Passwords}
        \cup {RegBody("a@x.com", NonString), Without(RegBody("a@x.com", "p1"), "name")}

LoginBodies ==
    {[email |-> e, password |-> p] : e \in Emails, p \in Passwords \cup {""}}

B1 ==
    [title |-> "t1", content |-> "c", category |-> "cat", priority |-> "hi",
     tags |-> "x", status |-> "pending", date |-> "2024-01-01"]

B2 == [B1 EXCEPT !.title = "t2", !.status = "done"]

TaskBodies == {B1, B2, Without(B1, "status")}

\* bodies that also carry the server-assigned keys
UpdateBodies ==
    {Without(B1, "status"), Spread(B1, [id |-> 0])}
        \cup {Spread(B2, [email |-> e]) : e \in Emails}

----------------------------------------------------------------------------
(* Middleware *)

RegistrationFields == {"name", "email", "password", "phone", "age", "address"}
TaskFields == {"title", "content", "category", "priority", "tags", "status", "date"}

\* the keys of the errors object
validateRegistration(body) == {k \in RegistrationFields : Falsy(Field(body, k))}

validateTask(body) == {k \in TaskFields : Falsy(Field(body, k))}

NoUser == [email |-> Undefined]

\* the middleware reading the payload without verifying it (jwt.decode)
authenticateDecodeOnly(auth, now) ==
    IF auth.scheme # "Bearer"
    THEN [status |-> 403, user |-> NoUser]
    ELSE [status |-> 0,
          user |-> [email |-> auth.token.email, iat |-> auth.token.iat,
                    exp |-> auth.token.exp]]

\* status 0: next() was called with req.user bound
authenticate(auth, now) ==
    IF auth.scheme # "Bearer"
    THEN [status |-> 403, user |-> NoUser]
    ELSE IF jwtVerify(auth.token, now)
         THEN [status |-> 0,
               user |-> [email |-> auth.token.email, iat |-> auth.token.iat,
                         exp |-> auth.token.exp]]
         ELSE [status |-> 401, user |-> NoUser]

AuthMessage(status) ==
    IF status = 403 THEN Message("No token provided") ELSE Message("Invalid token")

----------------------------------------------------------------------------
(* The queries of the handlers *)

\* the lookup comparing the wrong field
userExistsByName(us, email) == \E i \in 1..Len(us) : us[i].name = email

\* users.find((user) => user.email === email) is defined
userExists(us, email) == \E i \in 1..Len(us) : us[i].email = email

\* the lookup that takes the first user whatever the email
findUserFirst(us, email) == IF Len(us) > 0 THEN 1 ELSE 0

\* users.find((u) => u.email === email), as an index; 0: undefined
findUser(us, email) ==
    LET Test(u) == u.email = email IN SelectIndex(us, Test)

\* the predicate with the owner test forgotten
taskMatchesAnyOwner(t, id, email) == LooseEq(t.id, id)

\* (t) => t.id == id && t.email === email
taskMatches(t, id, email) == LooseEq(t.id, id) /\ t.email = email

\* the lookup that takes the last match
findTaskLast(ts, id, email) ==
    LET hits == {i \in 1..Len(ts) : taskMatches(ts[i], id, email)}
    IN  IF hits = {} THEN 0 ELSE CHOOSE i \in hits : \A j \in hits : j <= i

\* tasks.find / tasks.findIndex with that predicate; 0: not found
findTask(ts, id, email) ==
    LET Test(t) == taskMatches(t, id, email) IN SelectIndex(ts, Test)

\* the list with the owner filter forgotten
tasksOfAll(ts, email) == ts

\* tasks.filter((task) => task.email === email)
tasksOf(ts, email) ==
    LET Test(t) == t.email = email IN SelectSeq(ts, Test)

\* the filter with the owner test forgotten
withoutTaskAnyOwner(ts, id, email) ==
    LET Test(t) == ~LooseEq(t.id, id) IN SelectSeq(ts, Test)

\* tasks.splice(tasks.findIndex(...), 1): an index of -1 removes the last task
withoutTaskSplice(ts, id, email) ==
    LET Test(t) == ~LooseEq(t.id, id) \/ t.email # email
        Hit(t) == ~Test(t)
        i == SelectIndex(ts, Hit)
        at == IF i = 0 THEN Len(ts) ELSE i
    IN  IF ts = <<>> THEN ts
        ELSE SubSeq(ts, 1, at - 1) \o SubSeq(ts, at + 1, Len(ts))

\* tasks.filter((t) => t.id != id || t.email !== email)
withoutTask(ts, id, email) ==
    LET Test(t) == ~LooseEq(t.id, id) \/ t.email # email IN SelectSeq(ts, Test)

\* the store emptied, whoever owns the tasks
withoutTasksOfAll(ts, email) == <<>>

\* tasks.filter((task) => task.email !== email)
withoutTasksOf(ts, email) ==
    LET Test(t) == t.email # email IN SelectSeq(ts, Test)

\* the filter with the test inverted
withoutUserInverted(us, email) ==
    LET Test(u) == u.email = email IN SelectSeq(us, Test)

\* users.filter((u) => u.email !== email)
withoutUser(us, email) ==
    LET Test(u) == u.email # email IN SelectSeq(us, Test)

ISOString(now) == DecStr(now)

newTask(body, email, now) ==
    [id |-> now,
     email |-> email,
     title |-> Field(body, "title"),
     content |-> Field(body, "content"),
     category |-> Field(body, "category"),
     priority |-> Field(body, "priority"),
     tags |-> Field(body, "tags"),
     status |-> IF Falsy(Field(body, "status")) THEN "pending" ELSE Field(body, "status"),
     date |-> IF Falsy(Field(body, "date")) THEN ISOString(now) ELSE Field(body, "date")]

newUser(body, hashedPassword) ==
    [name |-> Field(body, "name"),
     email |-> Field(body, "email"),
     password |-> hashedPassword,
     phone |-> Field(body, "phone"),
     age |-> Field(body, "age"),
     address |-> Field(body, "address")]

----------------------------------------------------------------------------
(* Initial state: neither file exists, which readData turns into [] *)

Init ==
    /\ users = <<>>
    /\ tasks = <<>>
    /\ clock = 0
    /\ issued = {}
    /\ pending = EmptyBag
    /\ resp = NoResponse
    /\ prev = NoSnapshot
    /\ registered = {}

Suspend(p) == pending (+) SetToBag({p})
Resume(p) == pending (-) SetToBag({p})

----------------------------------------------------------------------------
(* POST /register, up to the await of bcrypt.hash *)

RegisterStart(body) ==
    LET errors == validateRegistration(body)
        read == readData(users)
    IN  IF errors # {}
        THEN /\ resp' = Response("register", NoAuth, NoId, body, 400, Errors(errors))
             /\ prev' = Snapshot
             /\ UNCHANGED <<users, tasks, clock, issued, pending, registered>>
        ELSE IF userExists(read, body.email)
        THEN /\ resp' = Response("register", NoAuth, NoId, body, 400,
                                 Message("User already exists"))
             /\ prev' = Snapshot
             /\ UNCHANGED <<users, tasks, clock, issued, pending, registered>>
        ELSE /\ BagCardinality(pending) < MaxPending
             /\ pending' = Suspend([kind |-> "register", body |-> body, users |-> read])
             /\ UNCHANGED <<users, tasks, clock, issued, resp, prev, registered>>

(* the handler reading users.json again after the await *)
RegisterFinishFresh(p) ==
    /\ p.kind = "register"
    /\ pending' = Resume(p)
    /\ prev' = Snapshot
    /\ IF Hashable(p.body.password)
       THEN LET written == Append(readData(users),
                                  newUser(p.body, bcryptHash(p.body.password)))
                token == jwtSign(p.body.email, clock)
            IN  /\ users' = writeData(written)
                /\ issued' = issued \cup {token}
                /\ registered' = registered \cup {p.body.email}
                /\ resp' = Response("register", NoAuth, NoId, p.body, 201, TokenOut(token))
       ELSE /\ resp' = Response("register", NoAuth, NoId, p.body, 500,
                                Message("Error hashing password"))
            /\ UNCHANGED <<users, issued, registered>>
    /\ UNCHANGED <<tasks, clock>>

(* POST /register, from the await on: the handler's own copy of the users, *)
(* read before the await, is pushed to and written back                    *)
RegisterFinish(p) ==
    /\ p.kind = "register"
    /\ pending' = Resume(p)
    /\ prev' = Snapshot
    /\ IF Hashable(p.body.password)
       THEN LET written == Append(p.users, newUser(p.body, bcryptHash(p.body.password)))
                token == jwtSign(p.body.email, clock)
            IN  /\ users' = writeData(written)
                /\ issued' = issued \cup {token}
                /\ registered' = registered \cup {p.body.email}
                /\ resp' = Response("register", NoAuth, NoId, p.body, 201, TokenOut(token))
       ELSE /\ resp' = Response("register", NoAuth, NoId, p.body, 500,
                                Message("Error hashing password"))
            /\ UNCHANGED <<users, issued, registered>>
    /\ UNCHANGED <<tasks, clock>>

----------------------------------------------------------------------------
(* POST /login, up to the await of bcrypt.compare *)

LoginStart(body) ==
    LET read == readData(users)
        found == findUser(read, body.email)
    IN  IF Falsy(Field(body, "email")) \/ Falsy(Field(body, "password"))
        THEN /\ resp' = Response("login", NoAuth, NoId, body, 400,
                                 Message("Email and password are required"))
             /\ prev' = Snapshot
             /\ UNCHANGED <<users, tasks, clock, issued, pending, registered>>
        ELSE IF found = 0
        THEN /\ resp' = Response("login", NoAuth, NoId, body, 401,
                                 Message("Invalid credentials"))
             /\ prev' = Snapshot
             /\ UNCHANGED <<users, tasks, clock, issued, pending, registered>>
        ELSE /\ BagCardinality(pending) < MaxPending
             /\ pending' = Suspend([kind |-> "login", body |-> body, user |-> read[found]])
             /\ UNCHANGED <<users, tasks, clock, issued, resp, prev, registered>>

(* POST /login, from the await on *)
LoginFinish(p) ==
    /\ p.kind = "login"
    /\ pending' = Resume(p)
    /\ prev' = Snapshot
    /\ IF bcryptCompare(p.body.password, p.user.password)
       THEN LET token == jwtSign(p.body.email, clock)
            IN  /\ issued' = issued \cup {token}
                /\ resp' = Response("login", NoAuth, NoId, p.body, 200, TokenOut(token))
       ELSE /\ resp' = Response("login", NoAuth, NoId, p.body, 401,
                                Message("Invalid credentials"))
            /\ UNCHANGED issued
    /\ UNCHANGED <<users, tasks, clock, registered>>

----------------------------------------------------------------------------
(* The protected routes.  Each handler is synchronous: one atomic step.    *)
(* A request the middleware turns away is recorded without its :id, which  *)
(* nothing has read, and with the body it carried on the two routes whose  *)
(* chain goes on to validateTask.                                          *)

\* the answer of the authenticate middleware when it does not call next()
Rejected(op, auth, body, status) ==
    /\ resp' = Response(op, auth, NoId, body, status, AuthMessage(status))
    /\ prev' = Snapshot
    /\ UNCHANGED <<users, tasks, clock, issued, pending, registered>>

Answer(op, auth, id, body, status, out) ==
    /\ resp' = Response(op, auth, id, body, status, out)
    /\ prev' = Snapshot

\* GET /tasks: the handler
getTasksHandler(user, auth) ==
    /\ Answer("getTasks", auth, NoId, NoBody, 200,
              TasksOut(tasksOf(readData(tasks), user.email)))
    /\ UNCHANGED <<users, tasks, clock, issued, pending, registered>>

\* GET /tasks/:id: the handler
getTaskHandler(user, auth, id) ==
    LET read == readData(tasks)
        found == findTask(read, id, user.email)
    IN  /\ IF found = 0
           THEN Answer("getTask", auth, id, NoBody, 404, Message("Task not found"))
           ELSE Answer("getTask", auth, id, NoBody, 200, TaskOut(read[found]))
        /\ UNCHANGED <<users, tasks, clock, issued, pending, registered>>

\* POST /tasks: validateTask and the handler
createTaskHandler(user, auth, body) ==
    LET errors == validateTask(body)
        read == readData(tasks)
        created == newTask(body, user.email, clock)
    IN  IF errors # {}
        THEN /\ Answer("createTask", auth, NoId, body, 400, Errors(errors))
             /\ UNCHANGED <<users, tasks, clock, issued, pending, registered>>
        ELSE /\ Len(read) < MaxTasks
             /\ tasks' = writeData(Append(read, created))
             /\ Answer("createTask", auth, NoId, body, 200, TaskOut(Stringify(created)))
             /\ UNCHANGED <<users, clock, issued, pending, registered>>

\* PUT /tasks/:id: validateTask and the handler
updateTaskHandler(user, auth, id, body) ==
    LET errors == validateTask(body)
        read == readData(tasks)
        taskIndex == findTask(read, id, user.email)
    IN  IF errors # {}
        THEN /\ Answer("updateTask", auth, id, body, 400, Errors(errors))
             /\ UNCHANGED <<users, tasks, clock, issued, pending, registered>>
        ELSE IF taskIndex = 0
        THEN /\ Answer("updateTask", auth, id, body, 404, Message("Task not found"))
             /\ UNCHANGED <<users, tasks, clock, issued, pending, registered>>
        ELSE LET merged == Spread(read[taskIndex], body)
             IN  /\ tasks' = writeData([read EXCEPT ![taskIndex] = merged])
                 /\ Answer("updateTask", auth, id, body, 200, TaskOut(Stringify(merged)))
                 /\ UNCHANGED <<users, clock, issued, pending, registered>>

\* DELETE /tasks/:id: the handler
deleteTaskHandler(user, auth, id) ==
    /\ tasks' = writeData(withoutTask(readData(tasks), id, user.email))
    /\ Answer("deleteTask", auth, id, NoBody, 200, Message("Task deleted"))
    /\ UNCHANGED <<users, clock, issued, pending, registered>>

\* DELETE /tasks: the handler
deleteTasksHandler(user, auth) ==
    /\ tasks' = writeData(withoutTasksOf(readData(tasks), user.email))
    /\ Answer("deleteTasks", auth, NoId, NoBody, 200,
              Message("All your tasks have been deleted."))
    /\ UNCHANGED <<users, clock, issued, pending, registered>>

\* DELETE /delete-account: the handler
deleteAccountHandler(user, auth) ==
    IF Falsy(user.email)
    THEN /\ Answer("deleteAccount", auth, NoId, NoBody, 400,
                   Message("Invalid user. Cannot delete account."))
         /\ UNCHANGED <<users, tasks, clock, issued, pending, registered>>
    ELSE /\ users' = writeData(withoutUser(readData(users), user.email))
         /\ tasks' = writeData(withoutTasksOf(readData(tasks), user.email))
         /\ Answer("deleteAccount", auth, NoId, NoBody, 200,
                   Message("Account and all associated tasks deleted."))
         /\ registered' = registered \ {user.email}
         /\ UNCHANGED <<clock, issued, pending>>

(* The routes: authenticate first, then the rest of the chain on the       *)
(* parameters and body of the request.                                     *)

GetTasks(auth) ==
    LET a == authenticate(auth, clock)
    IN  IF a.status # 0 THEN Rejected("getTasks", auth, NoBody, a.status)
        ELSE getTasksHandler(a.user, auth)

GetTask(auth) ==
    LET a == authenticate(auth, clock)
    IN  IF a.status # 0 THEN Rejected("getTask", auth, NoBody, a.status)
        ELSE \E id \in IdParams : getTaskHandler(a.user, auth, id)

\* the chain with the two middlewares swapped: validateTask, authenticate
CreateTaskValidateFirst(auth) ==
    \E body \in TaskBodies :
        LET errors == validateTask(body)
            a == authenticate(auth, clock)
        IN  IF errors # {}
            THEN /\ Answer("createTask", auth, NoId, body, 400, Errors(errors))
                 /\ UNCHANGED <<users, tasks, clock, issued, pending, registered>>
            ELSE IF a.status # 0
            THEN Rejected("createTask", auth, body, a.status)
            ELSE createTaskHandler(a.user, auth, body)

CreateTask(auth) ==
    LET a == authenticate(auth, clock)
    IN  IF a.status # 0
        THEN \E body \in TaskBodies : Rejected("createTask", auth, body, a.status)
        ELSE \E body \in TaskBodies : createTaskHandler(a.user, auth, body)

UpdateTask(auth) ==
    LET a == authenticate(auth, clock)
    IN  IF a.status # 0
        THEN \E body \in UpdateBodies : Rejected("updateTask", auth, body, a.status)
        ELSE \E id \in IdParams, body \in UpdateBodies :
                updateTaskHandler(a.user, auth, id, body)

DeleteTask(auth) ==
    LET a == authenticate(auth, clock)
    IN  IF a.status # 0 THEN Rejected("deleteTask", auth, NoBody, a.status)
        ELSE \E id \in IdParams : deleteTaskHandler(a.user, auth, id)

DeleteTasks(auth) ==
    LET a == authenticate(auth, clock)
    IN  IF a.status # 0 THEN Rejected("deleteTasks", auth, NoBody, a.status)
        ELSE deleteTasksHandler(a.user, auth)

DeleteAccount(auth) ==
    LET a == authenticate(auth, clock)
    IN  IF a.status # 0 THEN Rejected("deleteAccount", auth, NoBody, a.status)
        ELSE deleteAccountHandler(a.user, auth)

\* time passes; the response on record belongs to an earlier instant
Tick ==
    /\ clock < MaxClock
    /\ clock' = clock + 1
    /\ resp' = NoResponse
    /\ prev' = NoSnapshot
    /\ UNCHANGED <<users, tasks, issued, pending, registered>>

----------------------------------------------------------------------------
(* Specifications *)

AccountRequests ==
    \/ \E body \in RegBodies : RegisterStart(body)
    \/ \E p \in BagToSet(pending) : RegisterFinish(p)
    \/ \E body \in LoginBodies : LoginStart(body)
    \/ \E p \in BagToSet(pending) : LoginFinish(p)

\* the requests to the task routes that carry one of the given headers
TaskRequestsOf(headers) ==
    \/ \E auth \in headers : GetTasks(auth)
    \/ \E auth \in headers : GetTask(auth)
    \/ \E auth \in headers : CreateTask(auth)
    \/ \E auth \in headers : UpdateTask(auth)
    \/ \E auth \in headers : DeleteTask(auth)
    \/ \E auth \in headers : DeleteTasks(auth)

TaskRequests == TaskRequestsOf(AuthHeaders)

Next ==
    \/ AccountRequests
    \/ TaskRequests
    \/ \E auth \in AuthHeaders : DeleteAccount(auth)
    \/ Tick

\* the whole server; the claims are checked on its two parts below
Spec == Init /\ [][Next]_vars

(* The account routes alone.  None of them reads tasks.json except          *)
(* DELETE /delete-account, and the clock stands still: every token is live. *)
NextAccounts ==
    \/ AccountRequests
    \/ \E auth \in AuthHeaders : DeleteAccount(auth)

SpecAccounts == Init /\ [][NextAccounts]_vars

(* The handlers of the protected routes alone, for two users who registered *)
(* at time 0 and hold the tokens they were given.  No task route reads      *)
(* users.json.                                                              *)
InitTasks ==
    /\ users = writeData(<<newUser(RegBody("a@x.com", "p1"), bcryptHash("p1")),
                           newUser(RegBody("b@x.com", "p2"), bcryptHash("p2"))>>)
    /\ tasks = <<>>
    /\ clock = 0
    /\ issued = {jwtSign(e, 0) : e \in Emails}
    /\ pending = EmptyBag
    /\ resp = NoResponse
    /\ prev = NoSnapshot
    /\ registered = Emails

\* the headers of the clients of the handlers: each user with the token it
\* was given, and a client that sends no header
ClientHeaders == {NoAuth} \cup {Bearer(t) : t \in issued}

NextTasks ==
    \/ TaskRequestsOf(ClientHeaders)
    \/ \E auth \in ClientHeaders : DeleteAccount(auth)
    \/ Tick

SpecTasks == InitTasks /\ [][NextTasks]_vars

(* The middleware in front of the protected routes, for the same two users: *)
(* every kind of header, of which one user's token is the one that passes.  *)
GateHeaders ==
    {NoAuth, BasicAuth}
        \cup {Bearer(t) : t \in BadTokens}
        \cup {Bearer(t) : t \in {x \in issued : x.email = "a@x.com"}}

NextGate ==
    \/ TaskRequestsOf(GateHeaders)
    \/ \E auth \in GateHeaders : DeleteAccount(auth)
    \/ Tick

SpecGate == InitTasks /\ [][NextGate]_vars

----------------------------------------------------------------------------
(* What the claims speak of *)

ProtectedOps ==
    {"getTasks", "getTask", "createTask", "updateTask", "deleteTask",
     "deleteTasks", "deleteAccount"}

\* the request on record passed the authenticate middleware
Authenticated == resp.op \in ProtectedOps /\ resp.status \notin {401, 403}

\* the identity the middleware bound to it
Caller == resp.auth.token.email

\* the records of seq whose email is not the given one, in store order
NotOf(seq, email) ==
    LET Test(r) == r.email # email IN SelectSeq(seq, Test)

\* some owner other than the caller holds a task with the id of the request
OnForeignTask ==
    \E i \in 1..Len(prev.tasks) :
        prev.tasks[i].email # Caller /\ LooseEq(prev.tasks[i].id, resp.id)

\* the caller holds a task with the id of the request
OnOwnTask ==
    \E i \in 1..Len(prev.tasks) :
        prev.tasks[i].email = Caller /\ LooseEq(prev.tasks[i].id, resp.id)

\* the body of the request on record has every field validateTask asks for
FullBody == \A k \in TaskFields : k \in DOMAIN resp.body /\ resp.body[k] # ""

\* the task in the response was built from a task the caller owned
FromOwnTask ==
    \E i \in 1..Len(prev.tasks) :
        /\ prev.tasks[i].email = Caller
        /\ LooseEq(prev.tasks[i].id, resp.id)
        /\ resp.out.task =
              IF resp.op = "getTask" THEN prev.tasks[i]
              ELSE Spread(prev.tasks[i], resp.body)

\* every task of another owner is where it was, as it was
ForeignTasksKept ==
    IF resp.op = "deleteTask"
    THEN NotOf(tasks, Caller) = NotOf(prev.tasks, Caller)
    ELSE /\ Len(tasks) = Len(prev.tasks)
         /\ \A i \in 1..Len(prev.tasks) :
               prev.tasks[i].email # Caller => tasks[i] = prev.tasks[i]

(* C1: a GET, PUT or DELETE /tasks/:id made with B's valid token never     *)
(* returns a task of another user A and leaves every task of A in the      *)
(* store unchanged: a task in the response is one B owned (for PUT, merged *)
(* with B's body), and A's records are the same before and after.          *)
C1_Isolation ==
    (Authenticated /\ resp.op \in {"getTask", "updateTask", "deleteTask"}) =>
        /\ ForeignTasksKept
        /\ resp.out.kind \in {"task", "message", "errors"}
        /\ resp.out.kind = "task" => FromOwnTask

\* B updates a task of its own whose id is also the id of a task of A
C1_Witness ==
    /\ Authenticated /\ resp.op = "updateTask" /\ resp.status = 200
    /\ OnForeignTask

(* C2 as stated: with B's valid token, GET, PUT (all required fields) and  *)
(* DELETE on the id of a task of A are each answered 404.                  *)
C2_ForeignIdIsNotFound ==
    (/\ Authenticated /\ resp.op \in {"getTask", "updateTask", "deleteTask"}
     /\ resp.op = "updateTask" => FullBody
     /\ OnForeignTask)
        => resp.status = 404

(* C2 as amended: on the id of a task of A, B's GET and PUT (all required  *)
(* fields) are answered 404 unless B owns a task with the same id, and     *)
(* then they are answered 200 with B's task; B's DELETE is answered 200    *)
(* and removes nothing of A's.                                             *)
C2_ForeignIdAmended ==
    (/\ Authenticated /\ resp.op \in {"getTask", "updateTask", "deleteTask"}
     /\ resp.op = "updateTask" => FullBody
     /\ OnForeignTask)
        => /\ resp.op \in {"getTask", "updateTask"} =>
                IF OnOwnTask
                THEN resp.status = 200 /\ resp.out.kind = "task" /\ FromOwnTask
                ELSE resp.status = 404 /\ tasks = prev.tasks
           /\ resp.op = "deleteTask" =>
                /\ resp.status = 200 /\ resp.out.kind = "message"
                /\ NotOf(tasks, Caller) = NotOf(prev.tasks, Caller)

\* B deletes by the id of a task of A while owning no task with that id
C2_Witness ==
    /\ Authenticated /\ resp.op = "deleteTask"
    /\ OnForeignTask /\ ~OnOwnTask

(* C3: the users store never holds two records with the same email,        *)
(* however registrations suspended in bcrypt.hash and account deletions    *)
(* interleave.                                                             *)
C3_UniqueEmail ==
    \A i, j \in 1..Len(users) : users[i].email = users[j].email => i = j

\* a registration is answered 201 for an email that another registration,
\* overlapping it, has put in the store in the meantime
C3_Witness ==
    /\ resp.op = "register" /\ resp.status = 201
    /\ userExists(prev.users, resp.body.email)
    /\ userExists(users, resp.body.email)

\* the handlers of this kind that the step suspends, and those it resumes
Suspended(kind) ==
    {p \in BagToSet(pending') : p.kind = kind /\ CopiesIn(p, pending') > CopiesIn(p, pending)}

Resumed(kind) ==
    {p \in BagToSet(pending) : p.kind = kind /\ CopiesIn(p, pending') < CopiesIn(p, pending)}

(* C4 as stated: once a registration of an email has been answered 201    *)
(* and the account has not been deleted, a later registration of that      *)
(* email is answered 400 and leaves the store alone: no such registration  *)
(* gets past the "User already exists" test to the hashing and the write.  *)
C4_SecondRegistrationRejected ==
    [][\A p \in Suspended("register") : p.body.email \notin registered]_vars

\* both fields of a login body are there
Present(body) == ~Falsy(Field(body, "email")) /\ ~Falsy(Field(body, "password"))

C6_DeleteAccountFrame ==
    (resp.op = "deleteAccount" /\ resp.status = 200) =>
        /\ users = NotOf(prev.users, Caller)
        /\ tasks = NotOf(prev.tasks, Caller)
        /\ \A i \in 1..Len(users) : users[i].email # Caller
        /\ \A i \in 1..Len(tasks) : tasks[i].email # Caller

\* an account with tasks is deleted while another user and its task stay
C6_Witness ==
    /\ resp.op = "deleteAccount" /\ resp.status = 200
    /\ userExists(prev.users, Caller) /\ Len(users) = Len(prev.users) - 1
    /\ \E i \in 1..Len(prev.tasks) : prev.tasks[i].email = Caller
    /\ users # <<>> /\ tasks # <<>>

(* C7: DELETE /tasks/:id is answered 200; when no task of the caller has   *)
(* the id the tasks store is left as it was; and the store it leaves has   *)
(* no task of the caller with the id, so the same delete again changes     *)
(* nothing.                                                                *)
C7_DeleteIdempotent ==
    (Authenticated /\ resp.op = "deleteTask") =>
        /\ resp.status = 200
        /\ ~OnOwnTask => tasks = prev.tasks
        /\ \A i \in 1..Len(tasks) :
              ~(tasks[i].email = Caller /\ LooseEq(tasks[i].id, resp.id))
        /\ Len(tasks) <= Len(prev.tasks)

\* a delete by an id no task of the caller has, on a store holding tasks of
\* the caller
C7_Witness ==
    /\ Authenticated /\ resp.op = "deleteTask" /\ resp.status = 200
    /\ ~OnOwnTask
    /\ \E i \in 1..Len(prev.tasks) : prev.tasks[i].email = Caller
    /\ tasks = prev.tasks

(* C8 as stated: a GET /tasks/:id by the caller of a successful POST       *)
(* /tasks, with the id that POST returned and nothing in between, is       *)
(* answered 200 with the task the POST returned, whatever the store held.  *)
C8_RoundTrip ==
    [][(/\ resp.op = "createTask" /\ resp.status = 200
        /\ resp'.op = "getTask" /\ resp'.status \notin {401, 403}
        /\ resp'.auth = resp.auth
        /\ resp'.id = DecStr(resp.out.task.id))
            => /\ resp'.status = 200
               /\ resp'.out = TaskOut(resp.out.task)]_vars

\* the token of the request on record is one the server issued
IssuedToken == resp.auth.scheme = "Bearer" /\ resp.auth.token \in issued

(* C9: a request to a protected route without a Bearer token is answered   *)
(* 403, and one whose token the server did not sign, or whose payload was  *)
(* edited, or whose lifetime is over, is answered 401; either way both     *)
(* stores are as before and the response carries the message only.         *)
C9_Rejected ==
    (resp.op \in ProtectedOps /\ ~(IssuedToken /\ clock < resp.auth.token.exp)) =>
        /\ resp.status = IF resp.auth.scheme = "Bearer" THEN 401 ELSE 403
        /\ users = prev.users /\ tasks = prev.tasks
        /\ resp.out.kind = "message"
        /\ resp.id = NoId

\* an expired token is turned away from a store that holds users and tasks
C9_Witness ==
    /\ resp.op = "deleteAccount" /\ resp.status = 401
    /\ IssuedToken /\ userExists(users, Caller)
    /\ \E i \in 1..Len(tasks) : tasks[i].email = Caller

(* C10: a token issued to e passes the middleware of every protected route *)
(* at every time before its issue time plus the lifetime, whether or not   *)
(* e is still a user, and is answered 401 from that time on.               *)
C10_TokenLifetime ==
    (resp.op \in ProtectedOps /\ IssuedToken) =>
        IF clock < resp.auth.token.iat + ExpiresIn
        THEN resp.status \notin {401, 403}
        ELSE resp.status = 401

\* the token of a deleted account creates a task
C10_Witness ==
    /\ resp.op = "createTask" /\ resp.status = 200 /\ IssuedToken
    /\ ~userExists(users, Caller) /\ Caller \notin registered

----------------------------------------------------------------------------
\* the records of seq whose email is the given one, in store order
Of(seq, email) ==
    LET Test(r) == r.email = email IN SelectSeq(seq, Test)

(* C11 as stated: in every reachable state the email of every task in the  *)
(* tasks store is the email of a user in the users store.                  *)
C11_ReferentialIntegrity ==
    \A i \in 1..Len(tasks) : \E j \in 1..Len(users) : users[j].email = tasks[i].email

\* the body on record has every required field but, possibly, status and date
FullButDefaults ==
    \A k \in TaskFields \ {"status", "date"} : ~Falsy(Field(resp.body, k))

(* C12 as stated: a POST /tasks that passed authenticate and carries every  *)
(* required field except, possibly, status and date is answered 200 with a  *)
(* task whose status is "pending" when the body had none and whose date is  *)
(* the creation time when the body had none, and that task is appended to   *)
(* the store.                                                               *)
C12_Defaults ==
    (Authenticated /\ resp.op = "createTask" /\ FullButDefaults) =>
        /\ resp.status = 200 /\ resp.out.kind = "task"
        /\ Falsy(Field(resp.body, "status")) => resp.out.task.status = "pending"
        /\ Falsy(Field(resp.body, "date")) => resp.out.task.date = ISOString(clock)
        /\ tasks = Append(prev.tasks, resp.out.task)

\* the places in the store before of the tasks the caller owns with the id
\* of the request
OwnMatches ==
    {i \in 1..Len(prev.tasks) :
        prev.tasks[i].email = Caller /\ LooseEq(prev.tasks[i].id, resp.id)}

(* C13: a PUT /tasks/:id that passed authenticate with every required      *)
(* field is answered 404 with the store unchanged when the caller owns no   *)
(* task with the id; otherwise it is answered 200, the first such task is   *)
(* replaced by the record that has every key of the body with the body's    *)
(* value and every other key of the stored task with the stored value, the  *)
(* response is that record, and every other task is where and as it was.    *)
C13_Update ==
    (Authenticated /\ resp.op = "updateTask" /\ FullBody) =>
        IF OwnMatches = {}
        THEN resp.status = 404 /\ tasks = prev.tasks
        ELSE LET first == CHOOSE i \in OwnMatches : \A j \in OwnMatches : i <= j
                 stored == prev.tasks[first]
                 merged == tasks[first]
             IN  /\ resp.status = 200
                 /\ Len(tasks) = Len(prev.tasks)
                 /\ \A j \in 1..Len(tasks) : j # first => tasks[j] = prev.tasks[j]
                 /\ DOMAIN merged = DOMAIN stored \cup DOMAIN resp.body
                 /\ \A k \in DOMAIN resp.body : merged[k] = resp.body[k]
                 /\ \A k \in DOMAIN stored \ DOMAIN resp.body : merged[k] = stored[k]
                 /\ resp.out = TaskOut(merged)

\* an update that changes the first of two tasks the caller owns with the id
C13_Witness ==
    /\ Authenticated /\ resp.op = "updateTask" /\ resp.status = 200 /\ FullBody
    /\ Cardinality(OwnMatches) = 2
    /\ tasks # prev.tasks

(* C14: a GET /tasks that passed authenticate is answered 200 with exactly  *)
(* the tasks of the store whose email is the caller's, in store order, and  *)
(* none of another user; neither store changes.                             *)
C14_ListOwn ==
    (Authenticated /\ resp.op = "getTasks") =>
        /\ resp.status = 200
        /\ resp.out = TasksOut(Of(prev.tasks, Caller))
        /\ \A i \in 1..Len(resp.out.tasks) : resp.out.tasks[i].email = Caller
        /\ tasks = prev.tasks /\ users = prev.users

\* a list answered from a store that holds tasks of the caller and of another
C14_Witness ==
    /\ Authenticated /\ resp.op = "getTasks"
    /\ Of(prev.tasks, Caller) # <<>> /\ NotOf(prev.tasks, Caller) # <<>>
    /\ resp.out.tasks # <<>>

(* C15: a DELETE /tasks that passed authenticate leaves no task of the      *)
(* caller in the store, every task of every other user where and as it      *)
(* was, and the users store unchanged.                                      *)
C15_DeleteAllFrame ==
    (Authenticated /\ resp.op = "deleteTasks") =>
        /\ resp.status = 200
        /\ tasks = NotOf(prev.tasks, Caller)
        /\ \A i \in 1..Len(tasks) : tasks[i].email # Caller
        /\ users = prev.users

\* the caller's tasks are deleted from a store that also holds another's
C15_Witness ==
    /\ Authenticated /\ resp.op = "deleteTasks" /\ resp.status = 200
    /\ Of(prev.tasks, Caller) # <<>> /\ tasks # <<>>
    /\ Len(tasks) < Len(prev.tasks)

(* C16 as stated: a user record in the store stays in it, unaltered, over   *)
(* every step except a DELETE /delete-account answered 200 for the email of *)
(* that record; in particular over the steps of registrations of other      *)
(* emails.                                                                  *)
C16_UserKept ==
    [][\A i \in 1..Len(users) :
          \/ \E j \in 1..Len(users') : users'[j] = users[i]
          \/ /\ resp'.op = "deleteAccount" /\ resp'.status = 200
             /\ resp'.auth.token.email = users[i].email]_vars

(* C17: store writes are not synchronized.  A registration that resumes     *)
(* from password hashing is answered 201 and leaves users.json equal to     *)
(* the copy it read before the suspension plus its own user, whatever was   *)
(* written in between: the later write wins.  The interleaving of the       *)
(* claim, two registrations of distinct emails both answered 201 with the   *)
(* earlier user absent from the store, is the witness.                      *)
C17_LaterWriteWins ==
    [][\A p \in Resumed("register") :
          Hashable(p.body.password) =>
              /\ resp'.op = "register" /\ resp'.status = 201
              /\ Len(users') = Len(p.users) + 1
              /\ SubSeq(users', 1, Len(p.users)) = p.users
              /\ users'[Len(users')].email = p.body.email]_vars

\* a registration is answered 201 and its write drops the user of another
\* email whose registration was answered 201 before and who was in the store
C17_Witness ==
    /\ resp.op = "register" /\ resp.status = 201
    /\ userExists(users, resp.body.email)
    /\ \E e \in registered \ {resp.body.email} :
          userExists(prev.users, e) /\ ~userExists(users, e)

\* the token of the request on record is one authenticate lets through
LiveToken == IssuedToken /\ clock < resp.auth.token.exp

(* C18 as stated: on POST /tasks and PUT /tasks/:id validation runs before  *)
(* the access middleware: a request whose body lacks a required task field  *)
(* is answered with the 400 validation error, with or without a valid       *)
(* token.                                                                   *)
C18_ValidationFirst ==
    (resp.op \in {"createTask", "updateTask"} /\ ~FullBody) =>
        resp.status = 400 /\ resp.out.kind = "errors"

(* C18 as amended: on POST /tasks and PUT /tasks/:id the access middleware  *)
(* runs before validation: a request without a valid token is answered 403  *)
(* or 401 whatever its body, and a request with a valid token whose body    *)
(* lacks a required task field is answered with the 400 validation error    *)
(* naming the missing fields; in both cases the store is left as it was.    *)
C18_AuthenticateFirst ==
    (resp.op \in {"createTask", "updateTask"}) =>
        IF ~LiveToken
        THEN /\ resp.status = IF resp.auth.scheme = "Bearer" THEN 401 ELSE 403
             /\ resp.out.kind = "message"
             /\ tasks = prev.tasks
        ELSE IF ~FullBody
        THEN /\ resp.status = 400
             /\ resp.out = Errors({k \in TaskFields :
                                     k \notin DOMAIN resp.body \/ resp.body[k] = ""})
             /\ tasks = prev.tasks
        ELSE resp.status \in {200, 404}

\* a POST /tasks without status and without a token the server signed is
\* answered 401
C18_Witness ==
    /\ resp.op = "createTask" /\ resp.status = 401
    /\ resp.body # NoBody /\ "title" \in DOMAIN resp.body /\ ~FullBody
    /\ ~IssuedToken

(* C19 as stated: no operation changes the id or the email of a task in the *)
(* store: after a PUT /tasks/:id answered 200 every task has the id and the *)
(* email it had, and a POST /tasks answered 200 adds one task with the      *)
(* caller's email behind the others, so that a task with email e was        *)
(* created by e.                                                            *)
C19_IdentityImmutable ==
    /\ (Authenticated /\ resp.op = "updateTask" /\ resp.status = 200) =>
            /\ Len(tasks) = Len(prev.tasks)
            /\ \A i \in 1..Len(tasks) :
                  tasks[i].id = prev.tasks[i].id /\ tasks[i].email = prev.tasks[i].email
    /\ (Authenticated /\ resp.op = "createTask" /\ resp.status = 200) =>
            /\ SubSeq(tasks, 1, Len(prev.tasks)) = prev.tasks
            /\ Len(tasks) = Len(prev.tasks) + 1
            /\ tasks[Len(tasks)].email = Caller

(* C20 as stated: once DELETE /delete-account for e has been answered 200,  *)
(* users.json holds no user with email e until a registration of e is       *)
(* answered 201 again: every user in the store has an email whose           *)
(* registration was answered 201 and whose account has not been deleted     *)
(* since.  A registration of another email in flight during the deletion    *)
(* must not write e's record back.                                          *)
C20_DeletionDurable ==
    \A i \in 1..Len(users) : users[i].email \in registered

====
